---- MODULE Spec2Model ----
(***************************************************************************)
(* Model of scripts/validate-keys.py: the bounded-concurrency batch key    *)
(* validation (validate_keys_batch, KeyValidator.validate_key,             *)
(* KeyValidator.test_model) running on the asyncio event loop.             *)
(*                                                                         *)
(* Every action is one uninterrupted run of a task between two awaits.     *)
(***************************************************************************)
EXTENDS Integers, Sequences, FiniteSets, TLC

(* ---- bounds ---- *)
\* number of unique keys handed to validate_keys_batch
NumKeys == 2
\* largest value of --concurrency
MaxConcurrency == 2
\* largest number of test_model tasks of a run that end with an exception raised
\* outside the try block of test_model (while the request is being built)
MaxFaults == 1

\* get_key_preview is applied to every key of up to MaxShortLen characters over
\* NumChars characters, and to one key of each length up to MaxKeyLen
NumChars == 2

MaxShortLen == 6

MaxKeyLen == 51

\* deduplicate_keys is applied to every list of up to MaxRawLen lines over
\* NumRawKeys different lines
NumRawKeys == 3

MaxRawLen == 4

(* ---- program constants ---- *)
NumModels == 3

Keys == 1..NumKeys
Models == 1..NumModels

VARIABLES
    concurrency,     \* args.concurrency, the capacity of the semaphore
    pc,              \* per key: position of the task validate_with_semaphore(key)
    sem_value,       \* semaphore._value
    waiters,         \* semaphore._waiters, keys in arrival order
    probe,           \* per key and model: state of the task test_model(key, model)
    model_results,   \* per key: the dict model_results, filled in TEST_MODELS order
    doneQ,           \* finished pipeline tasks not yet taken by the as_completed loop
    results,         \* the list results of validate_keys_batch
    completionOrder, \* history: keys in the order their pipeline tasks finished
    session_open,    \* validator.session is open
    main,            \* position of main() / validate_keys_batch
    intr,            \* progress of an external interruption (SIGINT)
    faults,          \* number of test_model tasks that raised before their try block
    saved,           \* the list handed to save_results
    p_pc,            \* single probe experiment: position of test_model
    p_outcome,       \* single probe experiment: what the transport does
    p_result,        \* single probe experiment: what test_model returned
    posts,           \* number of session.post calls issued so far in the run
    k_pc,            \* preview experiment: position of get_key_preview
    k_key,           \* preview experiment: the key, a sequence of characters
    k_preview,       \* preview experiment: what get_key_preview returned
    d_pc,            \* start of main(): position between load_keys and the batch
    d_raw,           \* start of main(): raw_keys as returned by load_keys
    d_unique,        \* start of main(): unique_keys
    d_dups,          \* start of main(): duplicate_keys
    d_tasks          \* start of main(): number of pipelines handed to the batch

vars == <<concurrency, pc, sem_value, waiters, probe, model_results, doneQ,
          results, completionOrder, session_open, main, intr, faults, saved,
          p_pc, p_outcome, p_result, posts,
          k_pc, k_key, k_preview, d_pc, d_raw, d_unique, d_dups, d_tasks>>

batchVars == <<concurrency, pc, sem_value, waiters, probe, model_results, doneQ,
               results, completionOrder, session_open, main, intr, faults, saved,
               posts>>

probeVars == <<p_pc, p_outcome, p_result>>

previewVars == <<k_pc, k_key, k_preview>>

dedupVars == <<d_pc, d_raw, d_unique, d_dups, d_tasks>>

(* ---- transport outcomes of one request ---- *)
StatusCodes == 100..599

Response(s) == [kind |-> "response", status |-> s]
TimedOut == [kind |-> "timeout", status |-> 0]
TransportError == [kind |-> "error", status |-> 0]

AllOutcomes == {Response(s) : s \in StatusCodes} \cup {TimedOut, TransportError}

\* the outcomes that reach distinct branches of test_model
BranchOutcomes == {Response(s) : s \in {200, 401, 404, 429, 500}}
                      \cup {TimedOut, TransportError}

(* ---- KeyValidator.test_model: outcome of the request -> returned bool ---- *)
test_model_429_invalid(o) ==
    IF o.kind = "response" THEN o.status = 200 ELSE FALSE

test_model(o) ==
    IF o.kind = "response"
    THEN IF o.status = 200 THEN TRUE
         ELSE IF o.status = 401 THEN FALSE
         ELSE IF o.status = 404 THEN FALSE
         ELSE IF o.status = 429 THEN TRUE
         ELSE FALSE
    ELSE IF o.kind = "timeout" THEN FALSE
    ELSE FALSE

\* the handlers "except asyncio.TimeoutError" and "except Exception" around the request
HandlerCatches(o) == o.kind = "timeout" \/ o.kind = "error"

\* state of a finished test_model task that returned b
Returned(b) == IF b THEN "ret_true" ELSE "ret_false"

ProbeDone(p) == p \in {"ret_true", "ret_false", "raised"}

(* ---- KeyValidator.validate_key ---- *)
\* whether the handler around "await task" catches the exception of a probe
ExceptCatchesNothing(p) == FALSE

ExceptCatches(p) == p = "raised"

\* the value stored in model_results for an awaited probe task
AwaitedValue(p) == p = "ret_true"

AllOf(mr) == \A i \in DOMAIN mr : mr[i]

\* any(model_results.values())
any(mr) == \E i \in DOMAIN mr : mr[i]

\* the verdict taken from the probe that is awaited first
KeyValidationResultFirst(k, mr) ==
    [key |-> k, is_valid |-> mr[1], model_results |-> mr]

KeyValidationResult(k, mr) ==
    [key |-> k, is_valid |-> any(mr), model_results |-> mr]

\* number of probes the loop "for model, task in tasks: await task" gets
\* through from position n without suspending
DonePrefixEager(pk, n) == NumModels

RECURSIVE DonePrefix(_, _)
DonePrefix(pk, n) ==
    IF n <= NumModels /\ ProbeDone(pk[n]) THEN DonePrefix(pk, n + 1) ELSE n - 1

(* ---- asyncio.Semaphore as used by validate_with_semaphore ---- *)
NeverLocked(val, w, p) == FALSE

\* locked() that lets the value go below zero
LockedBelowZero(val, w, p) == val < 0

\* Semaphore.locked(): no free slot, or somebody is already waiting for one
Locked(val, w, p) == val = 0 \/ \E i \in DOMAIN w : p[w[i]] \in {"waiting", "woken"}

WakeUpNone(val, w, p) == [value |-> val, pc |-> p]

\* _wake_up_next that resolves the future of the first waiter but leaves the
\* slot counted as free
WakeUpUnreserved(val, w, p) ==
    IF \E i \in DOMAIN w : p[w[i]] = "waiting"
    THEN LET i == CHOOSE j \in DOMAIN w :
                      /\ p[w[j]] = "waiting"
                      /\ \A h \in 1..(j - 1) : p[w[h]] # "waiting"
         IN [value |-> val, pc |-> [p EXCEPT ![w[i]] = "woken"]]
    ELSE [value |-> val, pc |-> p]

\* _wake_up_next: hand the slot to the first waiter whose future is pending
WakeUpNext(val, w, p) ==
    IF \E i \in DOMAIN w : p[w[i]] = "waiting"
    THEN LET i == CHOOSE j \in DOMAIN w :
                      /\ p[w[j]] = "waiting"
                      /\ \A h \in 1..(j - 1) : p[w[h]] # "waiting"
         IN [value |-> val - 1, pc |-> [p EXCEPT ![w[i]] = "woken"]]
    ELSE [value |-> val, pc |-> p]

release(val, w, p) == WakeUpNext(val + 1, w, p)

\* leaving "async with semaphore", normally or with an exception
SemExitLeaky(val, w, p, exc) ==
    IF exc THEN [value |-> val, pc |-> p] ELSE release(val, w, p)

SemExit(val, w, p, exc) == release(val, w, p)

Remove(w, k) == SelectSeq(w, LAMBDA x : x # k)

(* ---- validate_keys_batch ---- *)
TotalShort == NumKeys - 1

Total == NumKeys

\* the finished task the as_completed loop receives next
NextDoneBySubmission(q) ==
    CHOOSE i \in DOMAIN q : \A j \in DOMAIN q : q[i].key <= q[j].key

NextDone(q) == 1

RemoveAt(q, i) == SubSeq(q, 1, i - 1) \o SubSeq(q, i + 1, Len(q))

Live == intr # "delivered"

\* get_key_preview is not being called
PreviewIdle ==
    /\ k_pc = "idle"
    /\ k_key = <<>>
    /\ k_preview = <<>>

\* main() is past its call of validate_keys_batch
DedupIdle ==
    /\ d_pc = "idle"
    /\ d_raw = <<>>
    /\ d_unique = <<>>
    /\ d_dups = <<>>
    /\ d_tasks = 0

\* the state when validate_keys_batch first awaits; f is the number of faults
\* before the try block of test_model that have already happened
InitWith(f) ==
    /\ concurrency \in 1..MaxConcurrency
    /\ pc = [k \in Keys |-> "created"]
    /\ sem_value = concurrency
    /\ waiters = <<>>
    /\ probe = [k \in Keys |-> [m \in Models |-> "none"]]
    /\ model_results = [k \in Keys |-> <<>>]
    /\ doneQ = <<>>
    /\ results = <<>>
    /\ completionOrder = <<>>
    /\ session_open = TRUE
    /\ main = "running"
    /\ intr = "none"
    /\ faults = f
    /\ saved = <<>>
    /\ posts = 0
    /\ p_pc = "idle"
    /\ p_outcome = TimedOut
    /\ p_result = FALSE
    /\ PreviewIdle
    /\ DedupIdle

Init == InitWith(0)

\* validate_key up to its first await: one probe task per model is created
CreateProbes(k) == [probe EXCEPT ![k] = [m \in Models |-> "created"]]

\* first step of validate_with_semaphore(key): acquire the semaphore
Start(k) ==
    /\ Live
    /\ pc[k] = "created"
    /\ IF ~Locked(sem_value, waiters, pc)
       THEN /\ sem_value' = sem_value - 1
            /\ pc' = [pc EXCEPT ![k] = "probing"]
            /\ probe' = CreateProbes(k)
            /\ UNCHANGED waiters
       ELSE /\ waiters' = Append(waiters, k)
            /\ pc' = [pc EXCEPT ![k] = "waiting"]
            /\ UNCHANGED <<sem_value, probe>>
    /\ UNCHANGED <<concurrency, model_results, doneQ, results, completionOrder,
                   session_open, main, intr, saved, faults, posts,
                   probeVars, previewVars, dedupVars>>

\* a waiter whose future was resolved resumes inside acquire and enters validate_key
Admit(k) ==
    /\ Live
    /\ pc[k] = "woken"
    /\ LET w == Remove(waiters, k)
           p == [pc EXCEPT ![k] = "probing"]
           s == IF sem_value > 0 THEN WakeUpNext(sem_value, w, p)
                                 ELSE [value |-> sem_value, pc |-> p]
       IN /\ waiters' = w
          /\ sem_value' = s.value
          /\ pc' = s.pc
    /\ probe' = CreateProbes(k)
    /\ UNCHANGED <<concurrency, model_results, doneQ, results, completionOrder,
                   session_open, main, intr, saved, faults, posts,
                   probeVars, previewVars, dedupVars>>

\* validate_key runs on from "await task" once the awaited probe task is done,
\* to its next await or to its end; pk is the state of the probe tasks of key k.
\* The wake-up of validate_key is taken together with the step that finished
\* the awaited task: nothing reads or changes the pipeline in between.
Resume(k, pk) ==
    LET from == Len(model_results[k]) + 1
        upto == DonePrefix(pk, from)
        escapes == \E i \in from..upto : pk[i] = "raised" /\ ~ExceptCatches(pk[i])
        mr == model_results[k] \o
                  [i \in 1..(upto - from + 1) |-> AwaitedValue(pk[from + i - 1])]
    IN /\ probe' = [probe EXCEPT ![k] = pk]
       /\ IF upto < from
          THEN UNCHANGED <<model_results, sem_value, pc, doneQ, completionOrder>>
          ELSE IF escapes
          THEN LET s == SemExit(sem_value, waiters, [pc EXCEPT ![k] = "failed"], TRUE)
               IN /\ sem_value' = s.value
                  /\ pc' = s.pc
                  /\ doneQ' = Append(doneQ, [key |-> k, is_valid |-> FALSE,
                                              model_results |-> <<>>])
                  /\ completionOrder' = Append(completionOrder, k)
                  /\ UNCHANGED model_results
          ELSE IF upto = NumModels
          THEN LET s == SemExit(sem_value, waiters, [pc EXCEPT ![k] = "finished"], FALSE)
               IN /\ model_results' = [model_results EXCEPT ![k] = mr]
                  /\ sem_value' = s.value
                  /\ pc' = s.pc
                  /\ doneQ' = Append(doneQ, KeyValidationResult(k, mr))
                  /\ completionOrder' = Append(completionOrder, k)
          ELSE /\ model_results' = [model_results EXCEPT ![k] = mr]
               /\ UNCHANGED <<sem_value, pc, doneQ, completionOrder>>

\* first steps of the three tasks test_model(key, model) of one key, which the
\* event loop runs one after the other: each up to the await of session.post,
\* unless it raises before its try block
ProbesStart(k) ==
    /\ Live
    /\ \A m \in Models : probe[k][m] = "created"
    /\ \A j \in Keys : pc[j] # "created"
    /\ \E f \in [Models -> {"inflight", "raised"}] :
           LET n == Cardinality({m \in Models : f[m] = "raised"})
           IN /\ faults + n <= MaxFaults
              /\ faults' = faults + n
              /\ posts' = posts + (NumModels - n)
              /\ Resume(k, f)
    /\ UNCHANGED <<concurrency, waiters, results, session_open, main, intr, saved,
                   probeVars, previewVars, dedupVars>>

\* whether test_model issues its request again after outcome o: every branch
\* of the response handling and both except clauses return, and no loop
\* surrounds session.post
RetriesOnTimeout(o) == o.kind = "timeout"

Retries(o) == FALSE

\* the request of test_model(key, model) ends with some outcome and
\* test_model returns
ProbeComplete(k, m) ==
    /\ Live
    /\ probe[k][m] = "inflight"
    /\ \E r \in {[again |-> Retries(o), result |-> test_model(o)] :
                     o \in BranchOutcomes} :
           IF r.again
           THEN /\ posts' = posts + 1
                /\ UNCHANGED <<probe, model_results, sem_value, pc, doneQ,
                               completionOrder>>
           ELSE /\ Resume(k, [probe[k] EXCEPT ![m] = Returned(r.result)])
                /\ UNCHANGED posts
    /\ UNCHANGED <<concurrency, waiters, results, session_open, main, intr, saved,
                   faults, probeVars, previewVars, dedupVars>>

\* one iteration of "for coro in asyncio.as_completed(tasks)", and, after the
\* last one, the return to main() and save_results
MainConsume ==
    /\ main = "running"
    /\ intr = "none"
    /\ doneQ # <<>>
    /\ LET i == NextDone(doneQ)
           r == doneQ[i]
       IN /\ doneQ' = RemoveAt(doneQ, i)
          /\ IF pc[r.key] = "failed"
             THEN /\ main' = "failed"
                  /\ session_open' = FALSE
                  /\ UNCHANGED <<results, saved>>
             ELSE /\ results' = Append(results, r)
                  /\ IF Len(results') = Total
                     THEN /\ main' = "returned"
                          /\ session_open' = FALSE
                          /\ saved' = results'
                     ELSE UNCHANGED <<main, session_open, saved>>
          /\ probe' = [probe EXCEPT ![r.key] = [m \in Models |-> "released"]]
    /\ UNCHANGED <<concurrency, pc, sem_value, waiters, model_results,
                   completionOrder, intr, faults, posts,
                   probeVars, previewVars, dedupVars>>

\* SIGINT: the runner asks for the cancellation of the main task; the tasks that
\* are ready to run still take their steps before the main task is resumed
Interrupt ==
    /\ main = "running"
    /\ intr = "none"
    /\ intr' = "requested"
    /\ UNCHANGED <<concurrency, pc, sem_value, waiters, probe, model_results, doneQ,
                   results, completionOrder, session_open, main, saved, faults, posts,
                   probeVars, previewVars, dedupVars>>

\* CancelledError is thrown into one pipeline task where it is suspended;
\* sem is the semaphore and the positions of all pipeline tasks
CancelOne(k, sem) ==
    LET w == Remove(sem.waiters, k)
        p == [sem.pc EXCEPT ![k] = "cancelled"]
    IN IF sem.pc[k] \in {"created", "wait_cancelled"}
       THEN [value |-> sem.value, waiters |-> w, pc |-> p]
       ELSE IF sem.pc[k] = "woken"
       THEN LET s == WakeUpNext(sem.value + 1, w, p)
            IN [value |-> s.value, waiters |-> w, pc |-> s.pc]
       ELSE IF sem.pc[k] = "probing"
       THEN LET s == SemExit(sem.value, w, p, TRUE)
            IN [value |-> s.value, waiters |-> w, pc |-> s.pc]
       ELSE sem

RECURSIVE CancelFrom(_, _)
CancelFrom(k, sem) ==
    IF k > NumKeys THEN sem ELSE CancelFrom(k + 1, CancelOne(k, sem))

\* CancelledError reaches main() at its await: "async with KeyValidator" closes
\* the session, validate_keys_batch and main() end without a result, and
\* asyncio.run cancels every task that is left and runs them to their end.
\* The list results is local to validate_keys_batch and goes with it; the
\* variable keeps the verdicts that had been emitted (they were printed), and
\* save_results is never called, so saved stays empty.
Teardown ==
    /\ main = "running"
    /\ intr = "requested"
    /\ main' = "cancelled"
    /\ intr' = "delivered"
    /\ session_open' = FALSE
    /\ LET requested == [k \in Keys |->
                            IF pc[k] = "waiting" THEN "wait_cancelled" ELSE pc[k]]
           s == CancelFrom(1, [value |-> sem_value, waiters |-> waiters,
                               pc |-> requested])
       IN /\ sem_value' = s.value
          /\ waiters' = s.waiters
          /\ pc' = s.pc
    /\ probe' = [k \in Keys |-> [m \in Models |->
                     IF probe[k][m] \in {"created", "inflight"} THEN "cancelled"
                     ELSE IF probe[k][m] = "none" THEN "none" ELSE "released"]]
    /\ model_results' = [k \in Keys |->
                             IF pc[k] = "probing" THEN <<>> ELSE model_results[k]]
    /\ doneQ' = <<>>
    /\ UNCHANGED <<concurrency, results, completionOrder, saved, faults, posts,
                   probeVars, previewVars, dedupVars>>

Next ==
    \/ \E k \in Keys : Start(k)
    \/ \E k \in Keys : Admit(k)
    \/ \E k \in Keys : ProbesStart(k)
    \/ \E k \in Keys, m \in Models : ProbeComplete(k, m)
    \/ MainConsume
    \/ Interrupt
    \/ Teardown

Spec == Init /\ [][Next]_vars

(* ---- a run that is not interrupted and in which every probe returns, under ---- *)
(* the scheduling of the event loop: every ready task is run, every request ends *)
Run ==
    \/ \E k \in Keys : Start(k)
    \/ \E k \in Keys : Admit(k)
    \/ \E k \in Keys : ProbesStart(k)
    \/ \E k \in Keys, m \in Models : ProbeComplete(k, m)
    \/ MainConsume

FairInit == InitWith(MaxFaults)

FairSpec == FairInit /\ [][Run]_vars /\ WF_vars(Run)

(* ---- one call of test_model on its own, for every outcome of the request ---- *)
ProbeInit ==
    /\ concurrency = 1
    /\ pc = [k \in Keys |-> "created"]
    /\ sem_value = 1
    /\ waiters = <<>>
    /\ probe = [k \in Keys |-> [m \in Models |-> "none"]]
    /\ model_results = [k \in Keys |-> <<>>]
    /\ doneQ = <<>>
    /\ results = <<>>
    /\ completionOrder = <<>>
    /\ session_open = TRUE
    /\ main = "running"
    /\ intr = "none"
    /\ faults = 0
    /\ saved = <<>>
    /\ posts = 0
    /\ p_pc = "called"
    /\ p_outcome \in AllOutcomes
    /\ p_result = FALSE
    /\ PreviewIdle
    /\ DedupIdle

ProbeCall ==
    /\ p_pc = "called"
    /\ IF p_outcome.kind = "response" \/ HandlerCatches(p_outcome)
       THEN /\ p_pc' = "returned"
            /\ p_result' = test_model(p_outcome)
       ELSE /\ p_pc' = "raised"
            /\ UNCHANGED p_result
    /\ UNCHANGED <<p_outcome, batchVars, previewVars, dedupVars>>

ProbeSpec == ProbeInit /\ [][ProbeCall]_vars

(* ---- get_key_preview on its own: every short key over a small alphabet, ---- *)
(* and one key of every length whose characters are all different             *)
Min(a, b) == IF a < b THEN a ELSE b

Max(a, b) == IF a > b THEN a ELSE b

\* the batch is not running
BatchAtRest ==
    /\ concurrency = 1
    /\ pc = [k \in Keys |-> "created"]
    /\ sem_value = 1
    /\ waiters = <<>>
    /\ probe = [k \in Keys |-> [m \in Models |-> "none"]]
    /\ model_results = [k \in Keys |-> <<>>]
    /\ doneQ = <<>>
    /\ results = <<>>
    /\ completionOrder = <<>>
    /\ session_open = TRUE
    /\ main = "running"
    /\ intr = "none"
    /\ faults = 0
    /\ saved = <<>>
    /\ posts = 0
    /\ p_pc = "idle"
    /\ p_outcome = TimedOut
    /\ p_result = FALSE

\* "***"; the character '*' is written 0, the characters of keys 1, 2, ...
Marker == <<0, 0, 0>>

\* key[:n]
SliceTo(key, n) == SubSeq(key, 1, Min(n, Len(key)))

\* key[-n:]
SliceFromEnd(key, n) == SubSeq(key, Max(1, Len(key) - n + 1), Len(key))

get_key_preview_le(key) ==
    IF Len(key) <= 20
    THEN SliceTo(key, 4) \o Marker \o SliceFromEnd(key, 4)
    ELSE SliceTo(key, 8) \o Marker \o SliceFromEnd(key, 8)

get_key_preview(key) ==
    IF Len(key) < 20
    THEN SliceTo(key, 4) \o Marker \o SliceFromEnd(key, 4)
    ELSE SliceTo(key, 8) \o Marker \o SliceFromEnd(key, 8)

\* the lines load_keys keeps are stripped and not empty
ShortKeys == UNION {[1..n -> 1..NumChars] : n \in 1..MaxShortLen}

DistinctKeys == {[i \in 1..n |-> i] : n \in 1..MaxKeyLen}

PreviewInit ==
    /\ BatchAtRest
    /\ DedupIdle
    /\ k_pc = "called"
    /\ k_key \in ShortKeys \cup DistinctKeys
    /\ k_preview = <<>>

PreviewCall ==
    /\ k_pc = "called"
    /\ k_pc' = "returned"
    /\ k_preview' = get_key_preview(k_key)
    /\ UNCHANGED <<k_key, batchVars, probeVars, dedupVars>>

PreviewSpec == PreviewInit /\ [][PreviewCall]_vars

(* ---- main() from load_keys to the call of validate_keys_batch, for every ---- *)
(* list of lines load_keys can return                                         *)
RawKeys == 1..NumRawKeys

RawLists == UNION {[1..n -> RawKeys] : n \in 0..MaxRawLen}

\* one iteration of "for key in keys"; a duplicate is dropped
DedupStepDropping(st, key) ==
    IF key \notin st.seen
    THEN [seen |-> st.seen \cup {key}, unique |-> Append(st.unique, key),
          dups |-> st.dups]
    ELSE st

\* one iteration of "for key in keys"; a duplicate is put in front
DedupStepPrepending(st, key) ==
    IF key \notin st.seen
    THEN [seen |-> st.seen \cup {key}, unique |-> Append(st.unique, key),
          dups |-> st.dups]
    ELSE [st EXCEPT !.dups = <<key>> \o @]

\* one iteration of "for key in keys"
DedupStep(st, key) ==
    IF key \notin st.seen
    THEN [seen |-> st.seen \cup {key}, unique |-> Append(st.unique, key),
          dups |-> st.dups]
    ELSE [st EXCEPT !.dups = Append(@, key)]

RECURSIVE DedupLoop(_, _)
DedupLoop(keys, st) ==
    IF keys = <<>> THEN st ELSE DedupLoop(Tail(keys), DedupStep(st, Head(keys)))

deduplicate_keys(keys) ==
    LET st == DedupLoop(keys, [seen |-> {}, unique |-> <<>>, dups |-> <<>>])
    IN <<st.unique, st.dups>>

\* "if not unique_keys"
NoKeysNever(unique_keys) == FALSE

NoKeys(unique_keys) == unique_keys = <<>>

MainInit ==
    /\ BatchAtRest
    /\ PreviewIdle
    /\ d_pc = "loaded"
    /\ d_raw \in RawLists
    /\ d_unique = <<>>
    /\ d_dups = <<>>
    /\ d_tasks = 0

\* unique_keys, duplicate_keys = deduplicate_keys(raw_keys)
MainDeduplicate ==
    /\ d_pc = "loaded"
    /\ d_pc' = "deduplicated"
    /\ d_unique' = deduplicate_keys(d_raw)[1]
    /\ d_dups' = deduplicate_keys(d_raw)[2]
    /\ UNCHANGED <<d_raw, d_tasks, batchVars, probeVars, previewVars>>

\* sys.exit(1) on an empty list; otherwise validate_keys_batch is called, which
\* creates the semaphore and one pipeline per key of unique_keys
MainCheck ==
    /\ d_pc = "deduplicated"
    /\ IF NoKeys(d_unique)
       THEN /\ d_pc' = "exit"
            /\ UNCHANGED d_tasks
       ELSE /\ d_pc' = "batch"
            /\ d_tasks' = Len(d_unique)
    /\ UNCHANGED <<d_raw, d_unique, d_dups, batchVars, probeVars, previewVars>>

MainNext == MainDeduplicate \/ MainCheck

MainSpec == MainInit /\ [][MainNext]_vars

(* ======================= properties ======================= *)

Executing == {k \in Keys : pc[k] = "probing"}

SlotHolders == {k \in Keys : pc[k] \in {"woken", "probing"}}

Exited(k) == pc[k] \in {"finished", "cancelled", "failed"}

Emitted == [i \in DOMAIN results |-> results[i].key]

Verdicts == {results[i] : i \in DOMAIN results} \cup {doneQ[i] : i \in DOMAIN doneQ}

\* C1: in every reachable state, the number of pipelines that have passed the
\* gate and are executing validate_key is at most the gate capacity.
C1_GateBound == Cardinality(Executing) <= concurrency

\* the gate is full while another pipeline waits for a slot
C1_Witness ==
    /\ Cardinality(Executing) = concurrency
    /\ \E k \in Keys : pc[k] = "waiting"

\* C2: when validate_keys_batch has returned, its list of verdicts holds each
\* key of the input exactly once, whatever the order of completion.
C2_EachKeyOnce ==
    main = "returned" =>
        /\ Len(results) = NumKeys
        /\ \A k \in Keys : Cardinality({i \in DOMAIN results : results[i].key = k}) = 1

\* a run that returned its verdicts in an order other than the input order
C2_Witness ==
    /\ main = "returned"
    /\ results[1].key # 1

\* C3: in a run that is not interrupted, under fair scheduling, every pipeline
\* waiting at the gate is eventually admitted, the run eventually returns with a
\* verdict for every key, and it never returns with fewer.
C3_RunCompletes ==
    /\ \A k \in Keys :
           (pc[k] = "waiting") ~> (pc[k] \in {"probing", "finished"} \/ intr # "none")
    /\ <>(intr # "none" \/ (main = "returned" /\ Len(saved) = NumKeys))
    /\ [](main = "returned" => \A k \in Keys : \E i \in DOMAIN results : results[i].key = k)

\* a completed run in which some pipeline had to wait at the gate
C3_Witness ==
    /\ main = "returned"
    /\ concurrency < NumKeys
    /\ Len(saved) = NumKeys

\* C4: a probe that fails (a non-success status, a timeout, a transport failure
\* or an exception of the probe task itself) gives usable = false for its own
\* key and model and aborts nothing: no pipeline and no batch ends with an
\* error, and a finished pipeline has a result for every model.
C4_ProbeFailureContained ==
    /\ main # "failed"
    /\ \A k \in Keys :
           /\ pc[k] # "failed"
           /\ pc[k] = "finished" => Len(model_results[k]) = NumModels
           /\ \A i \in DOMAIN model_results[k] :
                  probe[k][i] \in {"ret_false", "raised"} => model_results[k][i] = FALSE

\* a probe task raised, its pipeline still finished with usable = false for that
\* model, and another key was found valid
C4_Witness ==
    \E k \in Keys, j \in Keys, i \in Models :
        /\ k # j
        /\ pc[k] = "finished"
        /\ probe[k][i] = "raised"
        /\ model_results[k][i] = FALSE
        /\ \E r \in Verdicts : r.key = j /\ r.is_valid

\* C5: the valid flag of every verdict is the OR of its capability results:
\* false when every probe is unusable, true when at least one is usable.
C5_ValidIsOr ==
    \A r \in Verdicts :
        /\ (\A m \in Models : r.model_results[m] = FALSE) => r.is_valid = FALSE
        /\ (\E m \in Models : r.model_results[m] = TRUE) => r.is_valid = TRUE

\* a valid verdict with a usable and an unusable capability
C5_Witness ==
    \E r \in Verdicts :
        /\ r.is_valid
        /\ \E m \in Models : r.model_results[m]
        /\ \E m \in Models : ~r.model_results[m]

\* C6: test_model returns true for status 200 and 429, false for 401, 404 and
\* every other status, false for a timeout and for a transport failure, and
\* whatever the request does it returns and does not raise.
C6_ProbeTable ==
    /\ p_pc # "raised"
    /\ p_pc = "returned" =>
           /\ p_outcome.kind = "response" =>
                  /\ p_outcome.status = 200 => p_result = TRUE
                  /\ p_outcome.status = 429 => p_result = TRUE
                  /\ p_outcome.status = 401 => p_result = FALSE
                  /\ p_outcome.status = 404 => p_result = FALSE
                  /\ p_outcome.status \notin {200, 429} => p_result = FALSE
           /\ p_outcome.kind = "timeout" => p_result = FALSE
           /\ p_outcome.kind = "error" => p_result = FALSE

\* a rate-limited request was classified as usable
C6_Witness ==
    /\ p_pc = "returned"
    /\ p_outcome = Response(429)
    /\ p_result = TRUE

\* C7: every pipeline that holds a slot gives it back on every way out, also
\* when it is cancelled: the slots taken are exactly those of the pipelines
\* inside the gate, and once all pipelines have exited no slot is held.
C7_NoSlotLeak ==
    /\ concurrency - sem_value = Cardinality(SlotHolders)
    /\ (\A k \in Keys : Exited(k)) => sem_value = concurrency

\* a pipeline was cancelled while it held a slot, and all slots are free again
C7_Witness ==
    /\ intr = "delivered"
    /\ \E k \in Keys : pc[k] = "cancelled" /\ probe[k][1] = "cancelled"
    /\ \A k \in Keys : Exited(k)
    /\ sem_value = concurrency

\* C8: after an external interruption no further pipeline passes the gate and
\* no further probe call is started.
C8_NoAdmissionAfterInterrupt ==
    [][intr # "none" =>
          \A k \in Keys :
              /\ pc'[k] = "probing" => pc[k] = "probing"
              /\ \A m \in Models : probe'[k][m] = "inflight" => probe[k][m] = "inflight"]_vars

\* C9: when a run is interrupted, the verdicts completed before the
\* interruption reach the consumer of the results.
C9_CompletedVerdictsKept ==
    main = "cancelled" =>
        \A i \in DOMAIN results : \E j \in DOMAIN saved : saved[j] = results[i]

\* C10: verdicts are emitted in the order in which the pipelines completed,
\* and a completed verdict is emitted without waiting for any other pipeline.
C10_CompletionOrder ==
    /\ Emitted = SubSeq(completionOrder, 1, Len(results))
    /\ (main = "running" /\ intr = "none" /\ doneQ # <<>>) => ENABLED MainConsume

\* the verdict of a later key was emitted while an earlier key is still in flight
C10_Witness ==
    \E i \in DOMAIN results, j \in Keys :
        /\ j < results[i].key
        /\ pc[j] \in {"waiting", "woken", "probing"}

\* whether the sequence t occurs in the sequence s as a contiguous part
Contains(s, t) ==
    \E i \in 0..(Len(s) - Len(t)) : SubSeq(s, i + 1, i + Len(t)) = t

\* C11: the preview get_key_preview returns never includes the full key, for
\* a key of every length (keys of 8 characters or fewer included).
C11_PreviewHidesKey == k_pc = "returned" => ~Contains(k_preview, k_key)

\* C12: when the deduplicated list is empty, main() ends with sys.exit(1)
\* before validate_keys_batch is called: no semaphore and no pipeline is
\* created, so no probe is issued.
C12_EmptyListIsFatal ==
    (d_pc \in {"exit", "batch"} /\ d_unique = <<>>) => (d_pc = "exit" /\ d_tasks = 0)

C12_Witness == d_pc = "exit" /\ d_raw = <<>> /\ d_unique = <<>>

\* C15: for every raw list, the two lists deduplicate_keys returns have lengths
\* that sum to the length of the input, and the unique list holds no value twice.
C15_DedupPartition ==
    d_pc # "loaded" =>
        /\ Len(d_unique) + Len(d_dups) = Len(d_raw)
        /\ \A i, j \in DOMAIN d_unique : i # j => d_unique[i] # d_unique[j]

C15_Witness ==
    /\ d_pc = "deduplicated"
    /\ Len(d_unique) >= 2
    /\ Len(d_dups) >= 2

\* the positions of s that hold a value no earlier position holds
FirstOccurrences(s) == {i \in DOMAIN s : \A j \in 1..(i - 1) : s[j] # s[i]}

\* the elements of s at the positions in I, in the order of s
AtIndices(s, I) ==
    LET F[n \in 0..Len(s)] ==
            IF n = 0 THEN <<>>
            ELSE IF n \in I THEN Append(F[n - 1], s[n]) ELSE F[n - 1]
    IN F[Len(s)]

\* C16: the unique list is the first occurrence of each value in first-occurrence
\* order, the duplicates list is every later occurrence in input order; the
\* input [a, b, a, c] gives unique [a, b, c] and duplicates [a].
C16_DedupOrder ==
    d_pc # "loaded" =>
        /\ d_unique = AtIndices(d_raw, FirstOccurrences(d_raw))
        /\ d_dups = AtIndices(d_raw, DOMAIN d_raw \ FirstOccurrences(d_raw))
        /\ d_raw = <<1, 2, 1, 3>> => (d_unique = <<1, 2, 3>> /\ d_dups = <<1>>)

C16_Witness ==
    /\ d_pc = "batch"
    /\ d_raw = <<1, 2, 1, 3>>
    /\ d_unique = <<1, 2, 3>>
    /\ d_dups = <<1>>

\* C17: the preview is the first 4 characters, the marker and the last 4
\* characters of a key shorter than 20 characters, and the first 8, the marker
\* and the last 8 otherwise (a slice of a key shorter than the slice is the whole
\* key); for a key of 20 or more characters, none of the characters between the
\* first 8 and the last 8 is in the preview.
C17_PreviewShape ==
    k_pc = "returned" =>
        LET n == Len(k_key)
            e == IF n < 20 THEN 4 ELSE 8
            h == IF n < e THEN n ELSE e
        IN /\ Len(k_preview) = h + 3 + h
           /\ \A i \in 1..h : k_preview[i] = k_key[i]
           /\ \A i \in 1..3 : k_preview[h + i] = 0
           /\ \A i \in 1..h : k_preview[h + 3 + i] = k_key[n - h + i]
           /\ (n >= 20 /\ k_key \in DistinctKeys) =>
                  \A c \in 9..(n - 8) : \A i \in DOMAIN k_preview : k_preview[i] # c

C17_Witness ==
    /\ k_pc = "returned"
    /\ Len(k_key) = 51
    /\ k_preview = <<1, 2, 3, 4, 5, 6, 7, 8, 0, 0, 0, 44, 45, 46, 47, 48, 49, 50, 51>>

Waiting == {k \in Keys : pc[k] = "waiting"}

Probed == {km \in Keys \X Models : probe[km[1]][km[2]] \notin {"none", "created"}}

\* C14: each (key, model) pair is probed exactly once, with one request per
\* probe and none repeated after any outcome: at every moment the number of
\* requests issued is the number of pairs probed, and in a completed run it is
\* the number of keys times the number of models.
C14_ProbedOnce ==
    /\ posts = Cardinality(Probed)
    /\ main = "returned" => posts = NumKeys * NumModels

\* a completed run in which some probes failed and some succeeded
C14_Witness ==
    /\ main = "returned"
    /\ posts = NumKeys * NumModels
    /\ \E i \in DOMAIN results :
           \E m, n \in Models : results[i].model_results[m] /\ ~results[i].model_results[n]

\* C18: the verdict of a key is computed only after every one of its probes has
\* finished (returned or raised), all its probes having been started before the
\* result of any of them is taken; the model map of a verdict has an entry for
\* exactly each model.
C18_VerdictAfterAllProbes ==
    /\ \A k \in Keys :
           model_results[k] # <<>> =>
               \A m \in Models : probe[k][m] \notin {"none", "created"}
    /\ \A i \in DOMAIN doneQ :
           pc[doneQ[i].key] = "finished" =>
               /\ \A m \in Models : ProbeDone(probe[doneQ[i].key][m])
               /\ DOMAIN doneQ[i].model_results = Models
    /\ \A i \in DOMAIN results : DOMAIN results[i].model_results = Models

\* a verdict has just been computed while the other pipeline still has probes
\* in flight
C18_Witness ==
    /\ \E i \in DOMAIN doneQ :
           /\ pc[doneQ[i].key] = "finished"
           /\ DOMAIN doneQ[i].model_results = Models
           /\ \A m \in Models : ProbeDone(probe[doneQ[i].key][m])
    /\ \E k \in Keys, m \in Models : probe[k][m] = "inflight"

\* C19: the verdict of a key (valid flag and model map) is determined by the
\* outcomes of the probes of that key alone: whatever the order in which they
\* completed and whatever the other pipelines did in between, the map holds for
\* each model whether its probe returned True, and the flag whether any did.
C19_VerdictFromOwnProbes ==
    \A i \in DOMAIN doneQ :
        LET k == doneQ[i].key
        IN pc[k] = "finished" =>
               /\ doneQ[i].model_results = [m \in Models |-> probe[k][m] = "ret_true"]
               /\ doneQ[i].is_valid = (\E m \in Models : probe[k][m] = "ret_true")

\* both pipelines ran side by side, the second key finished first, and the two
\* verdicts differ
C19_Witness ==
    /\ Len(doneQ) = 2
    /\ doneQ[1].key > doneQ[2].key
    /\ \A i \in 1..2 : pc[doneQ[i].key] = "finished"
    /\ doneQ[1].is_valid
    /\ ~doneQ[2].is_valid
    /\ \E m \in Models : probe[doneQ[2].key][m] = "raised"

InFlight == {km \in Keys \X Models : probe[km[1]][km[2]] = "inflight"}

\* C20: in a run that is not interrupted, every probe in flight belongs to a key
\* whose pipeline holds a slot (the slot is given back only after all probes of
\* the key have finished), so at most C times the number of models probes are
\* in flight at the same time.
C20_InFlightWithinGate ==
    intr = "none" =>
        /\ \A km \in InFlight : pc[km[1]] = "probing"
        /\ Cardinality(InFlight) <= concurrency * NumModels

\* every slot is taken, every probe of the holders is in flight, a pipeline waits
C20_Witness ==
    /\ intr = "none"
    /\ Cardinality(InFlight) = concurrency * NumModels
    /\ \E k \in Keys : pc[k] = "waiting"

====
